---- MODULE Spec2Model ----
(***************************************************************************)
(* Model of crates/sdk/src/runtime.rs: GeneratorMetadata::run (the line    *)
(* protocol loop on stdin/stderr), GeneratorMetadata::generate (the        *)
(* generation pipeline) and write_module_to_file / write_to_file /         *)
(* create_generated_file (the output writer).                              *)
(*                                                                         *)
(* Text is a sequence of one-character strings, so that Path::extension,   *)
(* Path::with_extension and the case conversion are computed and not       *)
(* assumed.  A path is a sequence of components relative to the working    *)
(* directory; the empty path is the working directory itself.              *)
(***************************************************************************)
EXTENDS Integers, Sequences, FiniteSets, TLC

\* Number of lines the host writes to the generator's stdin in one session.
MaxLines == 2

----------------------------------------------------------------------------
(* Text and paths *)

\* the dot that separates a file name from its extension
Dot == "."

\* "rs", the extension write_module_to_file gives a leaf module
RsExt == <<"r", "s">>

\* "mod.rs", the aggregator file of a module that has submodules
ModRs == <<"m", "o", "d", ".", "r", "s">>

\* index of the last dot of a file name, 0 when it has none
LastDot(name) ==
    LET dots == {i \in 1..Len(name) : name[i] = Dot}
    IN  IF dots = {} THEN 0 ELSE CHOOSE i \in dots : \A j \in dots : j <= i

\* Path::extension().is_some() on a file name: a dot that is not the first
\* character splits the name (".o" has no extension, "o." has the empty one)
HasExtension(name) == LastDot(name) > 1

\* Path::file_stem on a file name
FileStem(name) ==
    IF HasExtension(name) THEN SubSeq(name, 1, LastDot(name) - 1) ELSE name

\* Path::extension of a path: that of its last component
PathHasExtension(path) == path # <<>> /\ HasExtension(path[Len(path)])

\* Path::with_extension: the last component's stem, a dot, the new extension
WithExtension(path, ext) ==
    IF path = <<>> THEN path
    ELSE [path EXCEPT ![Len(path)] = FileStem(path[Len(path)]) \o <<Dot>> \o ext]

\* Path::join with a relative component
Join(path, name) == Append(path, name)

\* Path::parent
Parent(path) == SubSeq(path, 1, Len(path) - 1)

\* p is path or lies under it
AtOrUnder(p, path) == Len(p) >= Len(path) /\ SubSeq(p, 1, Len(path)) = path

\* the directories create_dir_all(dir) needs to exist: dir and its ancestors
Ancestors(dir) == {SubSeq(dir, 1, k) : k \in 1..Len(dir)}

----------------------------------------------------------------------------
(* Module names and their case conversion *)

UpperCase == {"A", "B", "M"}

ToLower(c) ==
    CASE c = "A" -> "a"
      [] c = "B" -> "b"
      [] c = "M" -> "m"
      [] OTHER   -> c

\* name.to_case(Case::Snake, true): lower-case, with an underscore at every
\* lower-to-upper boundary
RECURSIVE SnakeFrom(_, _)
SnakeFrom(name, i) ==
    IF i > Len(name) THEN <<>>
    ELSE (IF i > 1 /\ name[i] \in UpperCase /\ name[i - 1] \notin UpperCase
          THEN <<"_">> ELSE <<>>)
         \o <<ToLower(name[i])>> \o SnakeFrom(name, i + 1)

to_case_snake(name) == SnakeFrom(name, 1)

\* snake_ident(&sm.name): the identifier declared by `pub mod <ident>;`
snake_ident(name) == to_case_snake(name)

----------------------------------------------------------------------------
(* Module trees: Module { name, contents, submodules } *)

Leaf(name, contents) ==
    [name |-> name, contents |-> contents, submodules |-> <<>>]

Node(name, contents, submodules) ==
    [name |-> name, contents |-> contents, submodules |-> submodules]

\* The module trees the generation function may return.
Trees ==
    { Leaf(<<"A">>, <<"cA">>),
      Node(<<"A">>, <<"cA">>, <<Leaf(<<"B">>, <<"cB">>)>>),
      Node(<<"A">>, <<"cA">>, <<Leaf(<<"B">>, <<"cB">>), Leaf(<<"b">>, <<"cb">>)>>),
      Node(<<"A">>, <<"cA">>, <<Leaf(<<"M", "o", "d">>, <<"cM">>), Leaf(<<"B">>, <<"cB">>)>>),
      Node(<<"A">>, <<"cA">>,
           << Node(<<"B">>, <<"cB">>, <<Leaf(<<"a", "B">>, <<"cX">>)>>),
              Leaf(<<"b">>, <<"cb">>) >>),
      Node(<<"A">>, <<"cA">>,
           << Node(<<"B">>, <<"cB">>, <<Leaf(<<"a", "B">>, <<"cX">>)>>),
              Leaf(<<"M">>, <<"cM">>) >>) }

\* format!("// File generated by {}. DO NOT EDIT\n\n", self.name)
Header(name) == <<"// File generated by ", name, ". DO NOT EDIT\n\n">>

\* quote!(pub mod #name;) for every submodule, in order
RECURSIVE SubmoduleDecls(_)
SubmoduleDecls(submodules) ==
    IF submodules = <<>> THEN <<>>
    ELSE <<"pub mod ">> \o snake_ident(submodules[1].name) \o <<";">>
         \o SubmoduleDecls(Tail(submodules))

\* Module::flatten: the whole tree as one text, submodules first, in order
RECURSIVE flatten(_), FlattenAll(_)
flatten(module) == FlattenAll(module.submodules) \o module.contents

FlattenAll(submodules) ==
    IF submodules = <<>> THEN <<>>
    ELSE flatten(submodules[1]) \o FlattenAll(Tail(submodules))

\* The write_to_file calls of write_module_to_file(module, parent_path, header),
\* in call order: the submodules' files first, then this module's mod.rs; a
\* module without submodules is one file, parent_path with extension "rs".
RECURSIVE write_module_to_file(_, _), WriteSubmodules(_, _)

\* write_module_to_file with the submodule declarations left out of mod.rs
write_module_to_file_no_decls(module, parent_path) ==
    IF module.submodules # <<>>
    THEN WriteSubmodules(module.submodules, parent_path)
         \o << [path |-> Join(parent_path, ModRs), contents |-> module.contents] >>
    ELSE << [path     |-> WithExtension(parent_path, RsExt),
             contents |-> module.contents] >>

\* write_module_to_file with mod.rs written before the submodules
write_module_to_file_mod_first(module, parent_path) ==
    IF module.submodules # <<>>
    THEN << [path     |-> Join(parent_path, ModRs),
             contents |-> SubmoduleDecls(module.submodules) \o module.contents] >>
         \o WriteSubmodules(module.submodules, parent_path)
    ELSE << [path     |-> WithExtension(parent_path, RsExt),
             contents |-> module.contents] >>

write_module_to_file(module, parent_path) ==
    IF module.submodules # <<>>
    THEN WriteSubmodules(module.submodules, parent_path)
         \o << [path     |-> Join(parent_path, ModRs),
                contents |-> SubmoduleDecls(module.submodules) \o module.contents] >>
    ELSE << [path     |-> WithExtension(parent_path, RsExt),
             contents |-> module.contents] >>

\* WriteSubmodules with every submodule written at the parent's own path
WriteSubmodulesUnnamed(submodules, parent_path) ==
    IF submodules = <<>> THEN <<>>
    ELSE write_module_to_file(submodules[1], parent_path)
         \o WriteSubmodules(Tail(submodules), parent_path)

WriteSubmodules(submodules, parent_path) ==
    IF submodules = <<>> THEN <<>>
    ELSE write_module_to_file(submodules[1],
                              Join(parent_path, to_case_snake(submodules[1].name)))
         \o WriteSubmodules(Tail(submodules), parent_path)

\* Module::get_all_paths(parent_path): the paths handed to the formatter
get_all_paths(module, parent_path) ==
    LET plan == write_module_to_file(module, parent_path)
    IN  [i \in 1..Len(plan) |-> plan[i].path]

----------------------------------------------------------------------------
(* The filesystem: the directories that exist and the regular files with   *)
(* their contents.  The working directory (the empty path) always exists.  *)

NoFiles == [p \in {} |-> <<>>]

\* the regular files at path or under it, with their contents
FilesAt(f, path) ==
    [p \in {q \in DOMAIN f.files : AtOrUnder(q, path)} |-> f.files[p]]

\* What remove_dir_all(path) can leave behind.  A path that does not exist
\* or is a regular file is an error and nothing changes; a directory loses
\* what could be deleted: everything, or all but some files (whose
\* directories then stay too), or everything inside it but not itself.
remove_dir_all(f, path) ==
    IF ~(path # <<>> /\ path \in f.dirs) THEN {f}
    ELSE LET inside == {p \in DOMAIN f.files : AtOrUnder(p, path)}
             left(keep, self_stays) ==
                 [dirs  |-> {d \in f.dirs :
                               \/ ~AtOrUnder(d, path)
                               \/ \E p \in keep : AtOrUnder(p, d)
                               \/ (self_stays /\ d = path)},
                  files |-> [p \in (DOMAIN f.files \ inside) \cup keep |-> f.files[p]]]
         IN  {left(keep, s) : keep \in SUBSET inside, s \in BOOLEAN}

\* fs::create_dir_all(dir) fails when a regular file is in the way
CanCreateDirAll(f, dir) == \A a \in Ancestors(dir) : a \notin DOMAIN f.files

create_dir_all(f, dir) == [f EXCEPT !.dirs = @ \cup Ancestors(dir)]

\* File::create(path) fails on a directory; it creates or truncates the file
CanCreateFile(f, path) == path # <<>> /\ path \notin f.dirs

PutFile(f, path, bytes) ==
    [f EXCEPT !.files = [p \in DOMAIN f.files \cup {path} |->
                            IF p = path THEN bytes ELSE f.files[p]]]

\* The I/O step of write_to_file that the environment lets fail, if any.
IoFaults == {"none", "create_dir_all", "File::create", "write"}

\* the step at which write_to_file(contents, path, header) panics, "none" if
\* it completes: create_generated_file's two steps, then the write
WriteToFilePanic(f, path, fault) ==
    IF fault = "create_dir_all" \/ ~CanCreateDirAll(f, Parent(path))
        THEN "create_dir_all"
    ELSE IF fault = "File::create" \/ ~CanCreateFile(create_dir_all(f, Parent(path)), path)
        THEN "File::create"
    ELSE IF fault = "write" THEN "write"
    ELSE "none"

\* the filesystem write_to_file(contents, path, header) leaves
write_to_file(f, path, header, contents, fault) ==
    LET at == WriteToFilePanic(f, path, fault)
        made == create_dir_all(f, Parent(path))
    IN  CASE at = "create_dir_all" -> f
          [] at = "File::create"   -> made
          [] at = "write"          -> PutFile(made, path, <<>>)
          [] OTHER                 -> PutFile(made, path, header \o contents)

\* Output directory and file names used by the configurations and the
\* pre-existing outputs.
NameO == <<"o">>
NameORs == <<"o", ".", "r", "s">>
NameDotO == <<".", "o">>
NameODot == <<"o", ".">>
NameStale == <<"z", ".", "r", "s">>

OldText == <<"old">>

\* The filesystems a session may start on: nothing there, a previous folder
\* output, a previous file output, a regular file where the folder goes, a
\* directory where the file goes.
InitialFilesystems ==
    { [dirs |-> {}, files |-> NoFiles],
      [dirs |-> {<<NameO>>},
       files |-> [p \in {<<NameO, ModRs>>, <<NameO, NameStale>>} |-> OldText]],
      [dirs |-> {}, files |-> [p \in {<<NameORs>>} |-> OldText]],
      [dirs |-> {}, files |-> [p \in {<<NameO>>} |-> OldText]],
      [dirs |-> {<<NameORs>>},
       files |-> [p \in {<<NameORs, NameStale>>} |-> OldText]] }

----------------------------------------------------------------------------
(* The protocol: request lines, response data, generate payloads *)

Methods == {"getManifest", "generate", "getVersion"}

\* Request ids are JSON numbers or JSON strings.
Ids == {[kind |-> "number", text |-> "1"], [kind |-> "string", text |-> "1"]}

NoId == [kind |-> "none", text |-> ""]

\* A line on stdin: a well-formed jsonrpc::Request, or text that does not
\* parse as one.  seq is the line's position among the lines the host sent.
RequestLine(seq, method, id) ==
    [seq |-> seq, wellFormed |-> TRUE, method |-> method, id |-> id]

MalformedLine(seq) ==
    [seq |-> seq, wellFormed |-> FALSE, method |-> "", id |-> NoId]

LinesAt(seq) ==
    {MalformedLine(seq)} \cup {RequestLine(seq, m, i) : m \in Methods, i \in Ids}

\* jsonrpc::ResponseData
ResultData(value) == [kind |-> "Result", result |-> value]

ErrorData(code, message) == [kind |-> "Error", code |-> code, message |-> message]

NoData == [kind |-> "None"]

\* serde_json::Value::Null
Null == [json |-> "null"]

\* jsonrpc::ManifestResponse { manifest: Manifest { default_output, pretty_name, .. } }
ManifestResponse(default_output, pretty_name) ==
    [json |-> "object",
     manifest |-> [defaultOutput |-> default_output, prettyName |-> pretty_name]]

\* GeneratorMetadata::new(generate_fn, name, default_output)
Generators == { [name |-> "Prisma Client Rust", default_output |-> "./prisma.rs"] }

\* ManifestData with the two strings in each other's place
ManifestDataSwapped(self) == ResultData(ManifestResponse(self.name, self.default_output))

\* "getManifest" arm of the dispatch
ManifestData(self) == ResultData(ManifestResponse(self.default_output, self.name))

\* UnknownMethodMessage without the method
UnknownMethodMessageNoMethod(self, method) == <<self.name, " cannot handle method ">>

\* format!("{} cannot handle method {}", self.name, method)
UnknownMethodMessage(self, method) == <<self.name, " cannot handle method ", method>>

\* the catch-all arm of the dispatch
UnknownMethodData(self, method) == ErrorData(0, UnknownMethodMessage(self, method))

\* Ok(_) and Err(e) arms of match self.generate(dmmf)
GenerateOkData == ResultData(Null)

\* GenerateErrData with the error swallowed
GenerateErrAsOk(e) == ResultData(Null)

GenerateErrData(e) == ErrorData(0, <<e>>)

\* the descriptions of the errors the generation function may return
GeneratorErrors == {"generator failed"}

\* LoopBreaks with the break left out: the loop goes on after "generate"
LoopNeverBreaks(method) == FALSE

\* if input.method.as_str() == "generate" { break; }
LoopBreaks(method) == method = "generate"

\* Response with the id re-encoded as a JSON number instead of moved
ResponseNumericId(request, data, complete) ==
    [jsonrpc |-> "2.0", id |-> [kind |-> "number", text |-> request.id.text],
     data |-> data, complete |-> complete, req |-> request.seq]

\* jsonrpc::Response { jsonrpc: "2.0", id: input.id, data }; complete tells
\* whether the single write put the whole line on stderr, req which line it
\* answers
Response(request, data, complete) ==
    [jsonrpc |-> "2.0", id |-> request.id, data |-> data,
     complete |-> complete, req |-> request.seq]

\* What stderr().write(bytes) may do: write all of the line, write a
\* non-empty part of it, or fail.
StderrWrites == {"all", "part", "error"}

ClientFormats == {"Folder", "File"}

OutputPaths == {<<NameO>>, <<NameORs>>, <<NameDotO>>, <<NameODot>>}

\* What input.params can hold for a generate request: something that is not
\* an EngineDMMF, or one with a datamodel that parses or not, an output path
\* and a config whose client format decodes or not.
NotEngineDMMF ==
    [decodes |-> FALSE, schemaOk |-> FALSE, output |-> <<>>, client_format |-> "Invalid"]

EngineDMMFs ==
    [decodes : {TRUE}, schemaOk : BOOLEAN, output : OutputPaths,
     client_format : ClientFormats \cup {"Invalid"}]

\* LayoutMismatch without the arm for the file format
LayoutMismatchFolderOnly(client_format, root_output_path) ==
    client_format = "Folder" /\ PathHasExtension(root_output_path)

\* the match on shared_config.client_format that panics
LayoutMismatch(client_format, root_output_path) ==
    \/ client_format = "Folder" /\ PathHasExtension(root_output_path)
    \/ client_format = "File" /\ ~PathHasExtension(root_output_path)

\* GeneratePanic with a config that does not decode taken for the default
GeneratePanicLenientConfig(params) ==
    IF ~params.decodes THEN "Failed to deserialize DMMF from Prisma engines"
    ELSE IF ~params.schemaOk THEN "Datamodel is invalid after being verified by CLI?!"
    ELSE IF LayoutMismatch(params.client_format, params.output)
        THEN "The output path must be a directory when using the folder format."
    ELSE ""

\* The panic that stops generate before the generation function is called,
\* "" when there is none; in the order of the code.
GeneratePanic(params) ==
    IF ~params.decodes THEN "Failed to deserialize DMMF from Prisma engines"
    ELSE IF ~params.schemaOk THEN "Datamodel is invalid after being verified by CLI?!"
    ELSE IF params.client_format \notin ClientFormats THEN "SharedConfig"
    ELSE IF LayoutMismatch(params.client_format, params.output)
        THEN (IF params.client_format = "Folder"
              THEN "The output path must be a directory when using the folder format."
              ELSE "The output path must be a file when using the file format.")
    ELSE ""

\* WritePlan with the folder writer used for both formats
WritePlanAlwaysFolder(client_format, root_module, root_output_path) ==
    write_module_to_file(root_module, root_output_path)

\* the match on shared_config.client_format that writes the output
WritePlan(client_format, root_module, root_output_path) ==
    IF client_format = "Folder"
    THEN write_module_to_file(root_module, root_output_path)
    ELSE << [path |-> root_output_path, contents |-> flatten(root_module)] >>

NoModule == Leaf(<<>>, <<>>)

\* Result<Module, GeneratorError> of the generation function
FnOk == [tag |-> "Ok"]

FnErr(e) == [tag |-> "Err", error |-> e]

NotCalled == [tag |-> "none"]

NoRequest == MalformedLine(0)

----------------------------------------------------------------------------
(* State *)

VARIABLES
    self,        \* the GeneratorMetadata: name and default_output
    stdin,       \* lines the host has written and run has not consumed
    sent,        \* every line the host has written, in order
    closed,      \* the host has closed its end of stdin
    pc,          \* where run is
    input,       \* the request being processed
    data,        \* the ResponseData computed for it
    handled,     \* the requests run has parsed, in order
    nread,       \* read_line calls that have returned
    stderr,      \* the responses written
    panic,       \* the message the process aborted with, "" while it runs
    dmmf,        \* the decoded generate payload
    root_module, \* the module tree the generation function returned
    plan,        \* the write_to_file calls still to make
    genCalls,    \* invocations of the generation function
    fnResult,    \* what the generation function returned
    leftover,    \* the files remove_dir_all left at or under the output path
    removed,     \* remove_dir_all calls made
    written,     \* paths of the files written, in order
    fmtCalls,    \* the path lists rustfmt was called with
    fs,          \* the filesystem
    fs0          \* the filesystem the session started on

hostVars == <<stdin, sent, closed>>
loopVars == <<input, data, handled, nread, stderr>>
genVars == <<dmmf, root_module, plan, genCalls, fnResult, leftover, removed, written,
            fmtCalls, fs>>
vars == <<self, stdin, sent, closed, pc, input, data, handled, nread, stderr, panic,
          dmmf, root_module, plan, genCalls, fnResult, leftover, removed, written,
          fmtCalls, fs, fs0>>

Init ==
    /\ self \in Generators
    /\ stdin = <<>>
    /\ sent = <<>>
    /\ closed = FALSE
    /\ pc = "read"
    /\ input = NoRequest
    /\ data = NoData
    /\ handled = <<>>
    /\ nread = 0
    /\ stderr = <<>>
    /\ panic = ""
    /\ dmmf = NotEngineDMMF
    /\ root_module = NoModule
    /\ plan = <<>>
    /\ genCalls = 0
    /\ fnResult = NotCalled
    /\ leftover = {}
    /\ removed = 0
    /\ written = <<>>
    /\ fmtCalls = <<>>
    /\ fs \in InitialFilesystems
    /\ fs0 = fs

Running == pc \notin {"done", "panicked"}

Abort(message) ==
    /\ pc' = "panicked"
    /\ panic' = message

----------------------------------------------------------------------------
(* The host, which writes to the generator's stdin while the generator runs *)

\* the host writes one more request line
HostSend ==
    /\ Running
    /\ ~closed
    /\ Len(sent) < MaxLines
    /\ \E line \in LinesAt(Len(sent) + 1) :
          /\ stdin' = Append(stdin, line)
          /\ sent' = Append(sent, line)
    /\ UNCHANGED <<self, closed, pc, panic, fs0>>
    /\ UNCHANGED loopVars
    /\ UNCHANGED genVars

\* the host closes stdin.  read_line sees the end of input only once the
\* lines written before it are consumed, so the close is taken when run
\* waits at the read with stdin drained.
HostClose ==
    /\ pc = "read"
    /\ stdin = <<>>
    /\ ~closed
    /\ closed' = TRUE
    /\ UNCHANGED <<self, stdin, sent, pc, panic, fs0>>
    /\ UNCHANGED loopVars
    /\ UNCHANGED genVars

----------------------------------------------------------------------------
(* GeneratorMetadata::run *)

\* What is left on stdin after BufReader::new(stdin()).read_line: the fresh
\* BufReader took `taken` whole lines in its read, and when `cut` also the
\* start of the line after them; read_line returned the first line, and the
\* rest of the buffer is dropped with the BufReader.
AfterReadLine(lines, taken, cut) ==
    LET rest == SubSeq(lines, taken + 1, Len(lines))
    IN  IF cut /\ rest # <<>>
        THEN <<MalformedLine(rest[1].seq)>> \o Tail(rest)
        ELSE rest

\* read_line and serde_json::from_str: blocks while stdin is empty and open;
\* at end of input the line is empty, which does not parse
ReadLine ==
    /\ pc = "read"
    /\ stdin # <<>> \/ closed
    /\ nread' = nread + 1
    /\ IF stdin = <<>>
       THEN /\ Abort("Failed to marshal jsonrpc input")
            /\ UNCHANGED <<stdin, input, handled>>
       ELSE /\ \E taken \in 1..Len(stdin), cut \in BOOLEAN :
                  stdin' = AfterReadLine(stdin, taken, cut)
            /\ IF stdin[1].wellFormed
               THEN /\ input' = stdin[1]
                    /\ handled' = Append(handled, stdin[1])
                    /\ pc' = "dispatch"
                    /\ UNCHANGED panic
               ELSE /\ Abort("Failed to marshal jsonrpc input")
                    /\ UNCHANGED <<input, handled>>
    /\ UNCHANGED <<self, sent, closed, data, stderr, fs0>>
    /\ UNCHANGED genVars

\* "getManifest" => ...
DispatchManifest ==
    /\ pc = "dispatch"
    /\ input.method = "getManifest"
    /\ data' = ManifestData(self)
    /\ pc' = "respond"
    /\ UNCHANGED <<self, panic, fs0, input, handled, nread, stderr>>
    /\ UNCHANGED hostVars
    /\ UNCHANGED genVars

\* method => ...
DispatchUnknown ==
    /\ pc = "dispatch"
    /\ input.method \notin {"getManifest", "generate"}
    /\ data' = UnknownMethodData(self, input.method)
    /\ pc' = "respond"
    /\ UNCHANGED <<self, panic, fs0, input, handled, nread, stderr>>
    /\ UNCHANGED hostVars
    /\ UNCHANGED genVars

\* "generate" => ...: decode the params, then generate up to the call of the
\* generation function
DispatchGenerate ==
    /\ pc = "dispatch"
    /\ input.method = "generate"
    /\ \E params \in {NotEngineDMMF} \cup EngineDMMFs :
          /\ dmmf' = params
          /\ IF GeneratePanic(params) # ""
             THEN Abort(GeneratePanic(params))
             ELSE /\ pc' = "generate_fn"
                  /\ UNCHANGED panic
    /\ UNCHANGED <<self, fs0, root_module, plan, genCalls, fnResult, leftover, removed,
                   written, fmtCalls, fs>>
    /\ UNCHANGED hostVars
    /\ UNCHANGED loopVars

\* the call with the old output removed before it rather than after it
CallGenerateFnAfterRemoval ==
    /\ pc = "generate_fn"
    /\ genCalls' = genCalls + 1
    /\ fs' \in remove_dir_all(fs, dmmf.output)
    /\ \/ \E e \in GeneratorErrors :
             /\ fnResult' = FnErr(e)
             /\ data' = GenerateErrData(e)
             /\ pc' = "respond"
             /\ UNCHANGED root_module
       \/ \E module \in Trees :
             /\ fnResult' = FnOk
             /\ root_module' = module
             /\ pc' = "remove"
             /\ UNCHANGED data
    /\ UNCHANGED <<self, panic, fs0, input, handled, nread, stderr>>
    /\ UNCHANGED <<dmmf, plan, leftover, removed, written, fmtCalls>>
    /\ UNCHANGED hostVars

\* (self.generate_fn)(...)?
CallGenerateFn ==
    /\ pc = "generate_fn"
    /\ genCalls' = genCalls + 1
    /\ \/ \E e \in GeneratorErrors :
             /\ fnResult' = FnErr(e)
             /\ data' = GenerateErrData(e)
             /\ pc' = "respond"
             /\ UNCHANGED root_module
       \/ \E module \in Trees :
             /\ fnResult' = FnOk
             /\ root_module' = module
             /\ pc' = "remove"
             /\ UNCHANGED data
    /\ UNCHANGED <<self, panic, fs0, input, handled, nread, stderr>>
    /\ UNCHANGED <<dmmf, plan, leftover, removed, written, fmtCalls, fs>>
    /\ UNCHANGED hostVars

\* remove_dir_all(root_output_path).ok(), the header, and the match that
\* selects what is written
RemoveOutput ==
    /\ pc = "remove"
    /\ fs' \in remove_dir_all(fs, dmmf.output)
    /\ leftover' = DOMAIN FilesAt(fs', dmmf.output)
    /\ removed' = removed + 1
    /\ plan' = WritePlan(dmmf.client_format, root_module, dmmf.output)
    /\ pc' = "write"
    /\ UNCHANGED <<self, panic, fs0, dmmf, root_module, genCalls, fnResult, written,
                   fmtCalls>>
    /\ UNCHANGED hostVars
    /\ UNCHANGED loopVars

\* one write_to_file call
WriteToFile ==
    /\ pc = "write"
    /\ plan # <<>>
    /\ \E fault \in IoFaults :
          LET w == Head(plan)
              at == WriteToFilePanic(fs, w.path, fault)
          IN  /\ fs' = write_to_file(fs, w.path, Header(self.name), w.contents, fault)
              /\ IF at = "none"
                 THEN /\ written' = Append(written, w.path)
                      /\ plan' = Tail(plan)
                      /\ pc' = IF Tail(plan) = <<>> THEN "rustfmt" ELSE "write"
                      /\ UNCHANGED panic
                 ELSE /\ Abort(at)
                      /\ UNCHANGED <<written, plan>>
    /\ UNCHANGED <<self, fs0, dmmf, root_module, genCalls, fnResult, leftover, removed,
                   fmtCalls>>
    /\ UNCHANGED hostVars
    /\ UNCHANGED loopVars

\* rustfmt(&root_module.get_all_paths(root_output_path)); Ok(())
Rustfmt ==
    /\ pc = "rustfmt"
    /\ fmtCalls' = Append(fmtCalls, get_all_paths(root_module, dmmf.output))
    /\ data' = GenerateOkData
    /\ pc' = "respond"
    /\ UNCHANGED <<self, panic, fs0, input, handled, nread, stderr>>
    /\ UNCHANGED <<dmmf, root_module, plan, genCalls, fnResult, leftover, removed,
                   written, fs>>
    /\ UNCHANGED hostVars

\* serialize the response, write it to stderr, break after "generate"
Respond ==
    /\ pc = "respond"
    /\ \E outcome \in StderrWrites :
          IF outcome = "error"
          THEN /\ Abort("Failed to write output to stderr for Prisma engines")
               /\ UNCHANGED stderr
          ELSE /\ stderr' = Append(stderr, Response(input, data, outcome = "all"))
               /\ pc' = IF LoopBreaks(input.method) THEN "done" ELSE "read"
               /\ UNCHANGED panic
    /\ UNCHANGED <<self, fs0, input, data, handled, nread>>
    /\ UNCHANGED hostVars
    /\ UNCHANGED genVars

Next ==
    \/ HostSend
    \/ HostClose
    \/ ReadLine
    \/ DispatchManifest
    \/ DispatchUnknown
    \/ DispatchGenerate
    \/ CallGenerateFn
    \/ RemoveOutput
    \/ WriteToFile
    \/ Rustfmt
    \/ Respond

Spec == Init /\ [][Next]_vars

\* the steps of run itself; the host's steps are not among them
RunStep ==
    \/ ReadLine
    \/ DispatchManifest
    \/ DispatchUnknown
    \/ DispatchGenerate
    \/ CallGenerateFn
    \/ RemoveOutput
    \/ WriteToFile
    \/ Rustfmt
    \/ Respond

\* run is one thread of straight-line code: whenever it can take its next
\* step it does.  The host is under no obligation.
FairSpec == Spec /\ WF_vars(RunStep)

----------------------------------------------------------------------------
(* Properties *)

\* the request a response answers, as the host sent it
RequestOf(response) == sent[response.req]

\* a response to a generate request has been written
GenerateAnswered ==
    \E k \in 1..Len(stderr) : RequestOf(stderr[k]).method = "generate"

\* C1: a generate request is the last request processed in a session: once
\* the response to a generate request has been written, no further line is
\* read, no further response is written and the generation function, called
\* once, is not called again, whatever lines remain on stdin.
C1_GenerateIsLast ==
    [][GenerateAnswered =>
          /\ nread' = nread
          /\ stderr' = stderr
          /\ genCalls = 1 /\ genCalls' = 1
          /\ pc' = "done"]_vars

\* a generate request was answered while another line was still on stdin
C1_Witness ==
    /\ GenerateAnswered
    /\ pc = "done"
    /\ stdin # <<>>
    /\ stdin[1].wellFormed

\* C2: every request run has read and finished processing has exactly one
\* response, written before the next line is read; the responses are in the
\* order of the requests, each with the tag "2.0", the id of its request
\* unchanged, and either a result or an error.
C2_OneResponsePerRequest ==
    /\ Len(stderr) \in {Len(handled) - 1, Len(handled)}
    /\ pc \in {"read", "done"} => Len(stderr) = Len(handled)
    /\ pc \in {"dispatch", "generate_fn", "remove", "write", "rustfmt", "respond"}
          => Len(stderr) = Len(handled) - 1
    /\ \A k \in 1..Len(stderr) :
          /\ stderr[k].req = handled[k].seq
          /\ stderr[k].jsonrpc = "2.0"
          /\ stderr[k].id = RequestOf(stderr[k]).id
          /\ \/ DOMAIN stderr[k].data = {"kind", "result"} /\ stderr[k].data.kind = "Result"
             \/ /\ DOMAIN stderr[k].data = {"kind", "code", "message"}
                /\ stderr[k].data.kind = "Error"

\* two requests were answered, one with a number as id and one with a string,
\* one with a result and one with an error, and run is back at the read
C2_Witness ==
    /\ pc = "read"
    /\ Len(stderr) = 2
    /\ stderr[1].id.kind # stderr[2].id.kind
    /\ stderr[1].data.kind # stderr[2].data.kind

\* index of the first generate request among the lines sent, 0 if none
FirstGenerate ==
    LET gens == {i \in 1..Len(sent) : sent[i].wellFormed /\ sent[i].method = "generate"}
    IN  IF gens = {} THEN 0 ELSE CHOOSE i \in gens : \A j \in gens : i <= j

\* the lines the ordering guarantee covers: all up to the first generate
Covered == IF FirstGenerate = 0 THEN 1..Len(sent) ELSE 1..FirstGenerate

\* C3: when the host sends well-formed request lines, the k-th response
\* answers the k-th line sent, however the lines are batched on stdin, and no
\* line up to the first generate request is skipped or dropped: each is
\* still unread on stdin, being processed, or answered.
C3_ArrivalOrderIsResponseOrder ==
    (\A i \in Covered : sent[i].wellFormed) =>
        /\ \A k \in 1..Len(stderr) : stderr[k].req = k
        /\ \A i \in Covered :
              \/ \E j \in 1..Len(stdin) : stdin[j] = sent[i]
              \/ \E j \in 1..Len(handled) : handled[j] = sent[i]

\* the response a step has just written
LastWritten == stderr'[Len(stderr')]

\* C4: a getManifest request is answered with a success result whose
\* manifest holds the name and the default output the generator was
\* constructed with; the generation function has not been invoked, the
\* filesystem is as it was, and run goes back to reading the next line.
C4_GetManifest ==
    [][/\ (pc = "dispatch" /\ input.method = "getManifest" /\ pc' # pc)
            => pc' = "respond" /\ panic' = ""
       /\ (pc = "respond" /\ input.method = "getManifest" /\ stderr' # stderr)
            => /\ LastWritten.req = input.seq
               /\ LastWritten.data.kind = "Result"
               /\ LastWritten.data.result.manifest =
                     [defaultOutput |-> self.default_output, prettyName |-> self.name]
               /\ genCalls' = 0
               /\ removed' = 0 /\ written' = <<>> /\ fmtCalls' = <<>>
               /\ fs' = fs0
               /\ pc' = "read"]_vars

\* a getManifest request was answered after another request, on a
\* filesystem that holds an earlier output
C4_Witness ==
    /\ pc = "read"
    /\ Len(stderr) = 2
    /\ RequestOf(stderr[2]).method = "getManifest"
    /\ stderr[2].data.kind = "Result"
    /\ DOMAIN fs0.files # {}

\* text is one of the parts of message
Contains(message, text) == \E i \in 1..Len(message) : message[i] = text

\* C5: a request whose method is neither getManifest nor generate is
\* answered with an error of code 0 whose message contains the generator
\* name and the method; the generation function has not been invoked, the
\* filesystem is as it was, and run goes back to reading the next line.
C5_UnknownMethod ==
    [][/\ (pc = "dispatch" /\ input.method \notin {"getManifest", "generate"} /\ pc' # pc)
            => pc' = "respond" /\ panic' = ""
       /\ (pc = "respond" /\ input.method \notin {"getManifest", "generate"}
             /\ stderr' # stderr)
            => /\ LastWritten.req = input.seq
               /\ LastWritten.data.kind = "Error"
               /\ LastWritten.data.code = 0
               /\ Contains(LastWritten.data.message, self.name)
               /\ Contains(LastWritten.data.message, input.method)
               /\ genCalls' = 0
               /\ removed' = 0 /\ written' = <<>> /\ fmtCalls' = <<>>
               /\ fs' = fs0
               /\ pc' = "read"]_vars

\* a request with an unknown method was answered with an error and the next
\* request was read
C5_Witness ==
    /\ Len(stderr) = 1
    /\ RequestOf(stderr[1]).method = "getVersion"
    /\ stderr[1].data.kind = "Error"
    /\ Len(handled) = 2

\* the responses that answer a generate request
GenerateResponses ==
    {k \in 1..Len(stderr) : RequestOf(stderr[k]).method = "generate"}

\* C6: a generate request is answered with an error response exactly when the
\* generation function returned an error: one response, code 0, the error's
\* description as message, and the session is over; a generate that panics
\* has no response, and one whose pipeline completes is answered with the
\* result null.
C6_GenerateErrorResponse ==
    /\ Cardinality(GenerateResponses) <= 1
    /\ \A k \in GenerateResponses :
          /\ pc = "done"
          /\ stderr[k].data.kind = "Error" <=> fnResult.tag = "Err"
          /\ stderr[k].data.kind = "Error" =>
                /\ stderr[k].data.code = 0
                /\ stderr[k].data.message = <<fnResult.error>>
          /\ stderr[k].data.kind = "Result" =>
                /\ stderr[k].data.result = Null
                /\ fnResult = FnOk
                /\ plan = <<>>
                /\ Len(fmtCalls) = 1
    /\ pc = "done" => GenerateResponses # {}
    /\ (pc = "panicked" /\ input.method = "generate") => GenerateResponses = {}

\* the generation function failed and the host got the error response
C6_Witness ==
    /\ pc = "done"
    /\ fnResult.tag = "Err"
    /\ \E k \in GenerateResponses : stderr[k].data.kind = "Error"

\* the output paths of the model that have an extension: "o.rs" and "o."
PathsWithExtension == {<<NameORs>>, <<NameODot>>}

\* the decoded payload asks for the folder format at a path with an
\* extension or the file format at a path without one
MismatchedRequest ==
    /\ dmmf.decodes /\ dmmf.schemaOk
    /\ \/ dmmf.client_format = "Folder" /\ dmmf.output \in PathsWithExtension
       \/ dmmf.client_format = "File" /\ dmmf.output \notin PathsWithExtension

\* C7: when the layout and the output path do not match, generate fails
\* before the generation function is invoked: the function is never called,
\* nothing is removed, no file is written and the formatter is not run.
C7_LayoutMismatchFailsFirst ==
    MismatchedRequest =>
        /\ pc = "panicked"
        /\ genCalls = 0 /\ fnResult = NotCalled
        /\ removed = 0 /\ fs = fs0
        /\ written = <<>>
        /\ fmtCalls = <<>>

\* the file format was asked for at "o", where an earlier output exists
C7_Witness ==
    /\ MismatchedRequest
    /\ dmmf.client_format = "File"
    /\ dmmf.output = <<NameO>>
    /\ NameO \in {p[1] : p \in DOMAIN fs0.files}
    /\ pc = "panicked"

\* the panics of run's own expect calls
MarshalPanic == "Failed to marshal jsonrpc input"
StderrPanic == "Failed to write output to stderr for Prisma engines"

\* the decoded payload is one generate cannot go on with
FatalPayload ==
    \/ ~dmmf.decodes
    \/ ~dmmf.schemaOk
    \/ dmmf.client_format \notin ClientFormats
    \/ MismatchedRequest

\* C8: every fatal condition aborts the process at once: a line that does
\* not parse, a payload generate cannot go on with, and a failed directory
\* or file creation end in a panic; the step into the panic writes nothing,
\* the request that triggered it has no response, the responses written
\* before stay as they are and nothing is read or written afterwards.
C8_FatalAborts ==
    [][/\ (pc = "read" /\ nread' # nread /\ (stdin = <<>> \/ ~stdin[1].wellFormed))
            => pc' = "panicked" /\ panic' = MarshalPanic
       /\ (pc = "dispatch" /\ input.method = "generate" /\ pc' # pc /\ FatalPayload')
            => pc' = "panicked" /\ panic' \notin {"", MarshalPanic, StderrPanic}
       /\ pc' = "panicked" =>
            /\ stderr' = stderr
            /\ panic' = MarshalPanic => Len(stderr') = Len(handled')
            /\ panic' # MarshalPanic =>
                  /\ Len(stderr') = Len(handled') - 1
                  /\ \A k \in 1..Len(stderr') : stderr'[k].req # input'.seq
       /\ pc = "panicked" =>
            /\ pc' = "panicked" /\ panic' = panic
            /\ nread' = nread /\ handled' = handled
            /\ genCalls' = genCalls /\ fs' = fs]_vars

\* a file could not be created for a generate request that came after an
\* answered request
C8_Witness ==
    /\ pc = "panicked"
    /\ panic = "File::create"
    /\ Len(stderr) = 1
    /\ stderr[1].complete

\* generate has returned Ok(()) for the given client format
Generated(client_format) ==
    /\ fmtCalls # <<>>
    /\ dmmf.client_format = client_format

IsLeaf(module) == module.submodules = <<>>

\* The files of a module that has submodules, as C9 describes them: mod.rs in
\* the module's directory with the header, the declarations and the module's
\* contents; <name>.rs in that directory for a submodule without submodules;
\* the files of a submodule with submodules in the directory <name>.
RECURSIVE FolderFiles(_, _, _)
FolderFiles(module, dir, header) ==
    { [path     |-> Join(dir, ModRs),
       contents |-> header \o SubmoduleDecls(module.submodules) \o module.contents] }
    \cup UNION
    { IF IsLeaf(module.submodules[i])
      THEN { [path     |-> Join(dir, to_case_snake(module.submodules[i].name)
                                     \o <<".", "r", "s">>),
              contents |-> header \o module.submodules[i].contents] }
      ELSE FolderFiles(module.submodules[i],
                       Join(dir, to_case_snake(module.submodules[i].name)), header)
      : i \in 1..Len(module.submodules) }

\* the files at or under the output path are exactly those of FolderFiles
FolderOutputIsExact ==
    LET expected == FolderFiles(root_module, dmmf.output, Header(self.name))
    IN  /\ \A e \in expected :
              /\ e.path \in DOMAIN fs.files
              /\ fs.files[e.path] = e.contents
        /\ \A p \in DOMAIN FilesAt(fs, dmmf.output) : \E e \in expected : e.path = p

RECURSIVE NoTwoModulesShareAFile(_)
NoTwoModulesShareAFile(module) ==
    LET sub == module.submodules
    IN  /\ \A i, j \in 1..Len(sub) :
              (i # j /\ IsLeaf(sub[i]) = IsLeaf(sub[j]))
                  => to_case_snake(sub[i].name) # to_case_snake(sub[j].name)
        /\ \A i \in 1..Len(sub) :
              /\ IsLeaf(sub[i]) => to_case_snake(sub[i].name) # <<"m", "o", "d">>
              /\ NoTwoModulesShareAFile(sub[i])

OutsideUntouched ==
    \A p \in DOMAIN fs.files :
        ~AtOrUnder(p, dmmf.output) => (p \in DOMAIN fs0.files /\ fs.files[p] = fs0.files[p])

\* C11: in folder layout every file generate writes lies inside the directory
\* at the output path, for every module tree, a root without submodules
\* included, and no file is created outside that directory.
C11_FolderOutputInsideOutputPath ==
    (dmmf.client_format = "Folder" /\ removed = 1) =>
        /\ \A i \in 1..Len(written) :
              AtOrUnder(written[i], dmmf.output) /\ written[i] # dmmf.output
        /\ OutsideUntouched

\* nothing, neither a file nor a directory, is at or under the path
NothingAtOrUnder(f, path) ==
    /\ DOMAIN FilesAt(f, path) = {}
    /\ \A d \in f.dirs : ~AtOrUnder(d, path)

\* the environment refused a deletion that remove_dir_all attempted: the
\* output path was a directory and part of it is still there
DeletionRefused ==
    dmmf.output \in fs0.dirs /\ ~NothingAtOrUnder(fs, dmmf.output)

\* C12: when the write step of generate begins (no output file written yet)
\* the generation function has succeeded and the removal has been attempted
\* once, and whatever was at the output path before, a directory or a regular
\* file, is gone unless the environment refused the deletion.
C12_OutputRemovedBeforeWrite ==
    (pc = "write" /\ written = <<>>) =>
        /\ fnResult = FnOk
        /\ removed = 1
        /\ (NothingAtOrUnder(fs, dmmf.output) \/ DeletionRefused)

\* the set of elements of a sequence
Range(s) == {s[i] : i \in 1..Len(s)}

\* C13: on a successful generate the formatter has been invoked exactly once,
\* after every output file was written, with exactly the paths of the files
\* written; in file layout that is the output path alone.
C13_FormatterGetsWrittenFiles ==
    fmtCalls # <<>> =>
        /\ Len(fmtCalls) = 1
        /\ plan = <<>>
        /\ Range(fmtCalls[1]) = Range(written)
        /\ dmmf.client_format = "File" => fmtCalls[1] = <<dmmf.output>>

\* C14: when the generation function returns an error, generate leaves the
\* filesystem as it found it: the old output is not removed, nothing is
\* created, the formatter is not invoked, and the only effect is the error
\* response carrying the error's text.
C14_GenerationErrorLeavesFilesystem ==
    fnResult.tag = "Err" =>
        /\ fs = fs0
        /\ removed = 0
        /\ plan = <<>>
        /\ written = <<>>
        /\ fmtCalls = <<>>
        /\ pc \in {"respond", "done", "panicked"}
        /\ data = GenerateErrData(fnResult.error)
        /\ pc = "done" => stderr[Len(stderr)].data = GenerateErrData(fnResult.error)

\* the generation function has failed over an existing output directory and
\* the error response is out
C14_Witness ==
    /\ fnResult.tag = "Err"
    /\ pc = "done"
    /\ dmmf.output \in fs0.dirs
    /\ DOMAIN FilesAt(fs, dmmf.output) # {}
    /\ stderr[Len(stderr)].data.kind = "Error"

\* the submodules of every module of the tree have pairwise distinct
\* case-converted names
RECURSIVE DistinctSiblingNames(_)
DistinctSiblingNames(module) ==
    LET sub == module.submodules
    IN  /\ \A i, j \in 1..Len(sub) :
              i # j => to_case_snake(sub[i].name) # to_case_snake(sub[j].name)
        /\ \A i \in 1..Len(sub) : DistinctSiblingNames(sub[i])

\* no module without submodules has the case-converted name "mod"
RECURSIVE NoChildlessModuleNamedMod(_)
NoChildlessModuleNamedMod(module) ==
    \A i \in 1..Len(module.submodules) :
        /\ IsLeaf(module.submodules[i])
              => to_case_snake(module.submodules[i].name) # <<"m", "o", "d">>
        /\ NoChildlessModuleNamedMod(module.submodules[i])

RECURSIVE SumOver(_, _)
SumOver(f, n) == IF n = 0 THEN 0 ELSE f[n] + SumOver(f, n - 1)

\* the number of modules of the tree
RECURSIVE NodeCount(_)
NodeCount(module) ==
    1 + SumOver([i \in 1..Len(module.submodules) |-> NodeCount(module.submodules[i])],
                Len(module.submodules))

\* every module was written once, to a path no other module was written to:
\* as many files as modules
OneFilePerNode ==
    /\ Len(written) = NodeCount(root_module)
    /\ Cardinality(Range(written)) = NodeCount(root_module)
    /\ Range(written) \subseteq DOMAIN fs.files

\* C15 as stated: for a tree whose root has submodules and whose sibling
\* modules have pairwise distinct case-converted names, the folder layout
\* writes every module to a path of its own, so the number of files equals
\* the number of modules.
C15_OneFilePerNodeAsStated ==
    (Generated("Folder") /\ ~IsLeaf(root_module) /\ DistinctSiblingNames(root_module))
        => OneFilePerNode

\* C15, amended: the same, for a tree in which moreover no module without
\* submodules has the case-converted name "mod".
C15_OneFilePerNode ==
    (/\ Generated("Folder")
     /\ ~IsLeaf(root_module)
     /\ DistinctSiblingNames(root_module)
     /\ NoChildlessModuleNamedMod(root_module))
        => OneFilePerNode

\* a tree two levels deep with distinct sibling names was written: four
\* modules, four files
C15_Witness ==
    /\ Generated("Folder")
    /\ DistinctSiblingNames(root_module)
    /\ NoChildlessModuleNamedMod(root_module)
    /\ \E i \in 1..Len(root_module.submodules) : ~IsLeaf(root_module.submodules[i])
    /\ NodeCount(root_module) = 4
    /\ Cardinality(Range(written)) = 4

\* C16: every response run emits is on the output stream in full, the whole
\* JSON object and its newline, so the host never sees a truncated line and
\* the loop goes on (or breaks) only after the whole line was written.
C16_ResponsesWrittenInFull ==
    \A k \in 1..Len(stderr) : stderr[k].complete

\* the host has sent a well-formed generate request
GenerateSent ==
    \E i \in 1..Len(sent) : sent[i].wellFormed /\ sent[i].method = "generate"

\* run has left its loop: by the break after generate, or by a panic
Terminated == pc \in {"done", "panicked"}

\* C17: once the host has sent a generate request or closed the input, run
\* eventually terminates, by the break after the generate response or by
\* aborting.
C17_RunTerminates == (GenerateSent \/ closed) ~> Terminated

\* the paths of the files of a module and all its descendants, the module
\* being written in the directory dir
SubtreePaths(module, dir) ==
    {e.path : e \in FolderFiles(module, dir, <<>>)}

\* every module of the tree that has submodules, with its directory
RECURSIVE Aggregators(_, _)
Aggregators(module, dir) ==
    IF IsLeaf(module) THEN {}
    ELSE {[module |-> module, dir |-> dir]}
         \cup UNION { Aggregators(module.submodules[i],
                                  Join(dir, to_case_snake(module.submodules[i].name)))
                      : i \in 1..Len(module.submodules) }

\* every file written so far is on disk, and where a directory's mod.rs
\* exists the files of all the modules below that directory exist
WrittenPostOrder ==
    /\ Range(written) \subseteq DOMAIN fs.files
    /\ \A a \in Aggregators(root_module, dmmf.output) :
          Join(a.dir, ModRs) \in DOMAIN fs.files
              => SubtreePaths(a.module, a.dir) \subseteq DOMAIN fs.files

\* write_module_to_file is running, has finished or was aborted by a failed
\* creation, over an output path that held no file when it started
FolderWriteFromEmpty ==
    /\ dmmf.client_format = "Folder"
    /\ removed = 1
    /\ leftover = {}

\* C18 as stated: starting from an empty output path, at every point of the
\* folder write, the state an aborted write leaves included, every file
\* written so far is on disk and a directory's mod.rs exists only when
\* every file of every module below that directory exists.
C18_PostOrderNoRollbackAsStated ==
    FolderWriteFromEmpty => WrittenPostOrder

\* C18, amended: the same, for a tree in which no module without submodules
\* has the case-converted name "mod".
C18_PostOrderNoRollback ==
    (FolderWriteFromEmpty /\ NoChildlessModuleNamedMod(root_module))
        => WrittenPostOrder

\* a write of a tree two levels deep was aborted by a failed creation after
\* the inner directory's mod.rs was written and before the root's
C18_Witness ==
    /\ FolderWriteFromEmpty
    /\ NoChildlessModuleNamedMod(root_module)
    /\ pc = "panicked"
    /\ panic \in {"create_dir_all", "File::create", "write"}
    /\ \E a \in Aggregators(root_module, dmmf.output) :
          /\ a.dir # dmmf.output
          /\ Join(a.dir, ModRs) \in Range(written)
    /\ Join(dmmf.output, ModRs) \notin DOMAIN fs.files

====
